---- MODULE Spec2Model ----
(***************************************************************************)
(* Model of the Home page component (frontend/src/pages/Home.jsx) and of   *)
(* the axios client it calls: the catalog store, the favorites store and   *)
(* the recommendation orchestrator, as one state machine whose actions are *)
(* the component's event handlers and the completions of its requests.     *)
(*                                                                         *)
(* JavaScript runs each handler to completion, and React commits the       *)
(* state updates of a handler (and flushes the effects that depend on      *)
(* them) before the next event is handled, so one handler invocation up to *)
(* its first await, and one continuation after an await, is one action.    *)
(* A handler is a closure over the state of the render it was created in:  *)
(* values it read before an await are the values of that render.           *)
(***************************************************************************)
EXTENDS Integers, Sequences, FiniteSets, Bags, TLC

(***************************************************************************)
(* JavaScript values                                                       *)
(***************************************************************************)
\* A movie identifier as a JavaScript value: a number, null, or a string
\* that is not numeric.
Num(i) == [k |-> "num", n |-> i]
Null == [k |-> "null", n |-> 0]
NonNumeric == [k |-> "str", n |-> 0]

\* JavaScript truthiness of such a value: 0 and null are falsy, every other
\* number and every non-empty string is truthy.
Truthy(v) == \/ v.k = "num" /\ v.n # 0
             \/ v.k = "str"
             \/ v.k = "text" /\ v.s # <<>>

\* isNaN(v): Number(null) is 0, Number of a non-numeric string is NaN.
IsNaN(v) == v.k = "str"

\* A string whose characters matter, as a JavaScript value.
Text(s) == [k |-> "text", s |-> s]

\* The sentinel of the genre select.
All == Text(<<"A", "l", "l">>)

\* A text is a sequence of words; null, undefined and '' are all the empty
\* sequence (the code only tests messages for truthiness).
NoMessage == <<>>

\* The letters, for the texts that are sequences of characters (titles,
\* descriptions, genres, the search term).
UpperCase == <<"A", "B", "C", "D", "E", "F", "G", "H", "I", "J", "K", "L", "M",
               "N", "O", "P", "Q", "R", "S", "T", "U", "V", "W", "X", "Y", "Z">>
LowerCase == <<"a", "b", "c", "d", "e", "f", "g", "h", "i", "j", "k", "l", "m",
               "n", "o", "p", "q", "r", "s", "t", "u", "v", "w", "x", "y", "z">>

IsUpper(c) == \E i \in 1..Len(UpperCase) : UpperCase[i] = c
IsLower(c) == \E i \in 1..Len(LowerCase) : LowerCase[i] = c
LetterIndex(c) ==
    CHOOSE i \in 1..Len(UpperCase) : UpperCase[i] = c \/ LowerCase[i] = c

\* String.prototype.toLowerCase, word by word or character by character.
LowerWord(w) == CASE w = "TMDb" -> "tmdb"
                  [] w = "TMDB" -> "tmdb"
                  [] w = "No" -> "no"
                  [] w = "Local" -> "local"
                  [] IsUpper(w) -> LowerCase[LetterIndex(w)]
                  [] OTHER -> w

toLowerCase(s) == [i \in 1..Len(s) |-> LowerWord(s[i])]

\* String.prototype.includes: needle occurs as a contiguous run of s.
includes(s, needle) ==
    \E i \in 0..(Len(s) - Len(needle)) :
        \A j \in 1..Len(needle) : s[i + j] = needle[j]

(***************************************************************************)
(* The persisted favorites: JSON.stringify / JSON.parse on arrays of       *)
(* numbers, a string being a sequence of lexical tokens.                   *)
(***************************************************************************)
NumToken(i) == CASE i = -1 -> "-1"
                 [] i = 0 -> "0"
                 [] i = 1 -> "1"
                 [] i = 2 -> "2"
                 [] i = 3 -> "3"

TokenNums == {-1, 0, 1, 2, 3}

IsNumToken(t) == \E i \in TokenNums : NumToken(i) = t

TokenNum(t) == CHOOSE i \in TokenNums : NumToken(i) = t

RECURSIVE JoinTokens(_)
JoinTokens(arr) ==
    IF Len(arr) = 0 THEN <<>>
    ELSE IF Len(arr) = 1 THEN <<NumToken(arr[1].n)>>
    ELSE <<NumToken(arr[1].n), ",">> \o JoinTokens(Tail(arr))

\* JSON.stringify of an array of numbers.
JSONstringify(arr) == <<"[">> \o JoinTokens(arr) \o <<"]">>

\* The elements between the brackets: number (, number)*
RECURSIVE ParseElements(_)
ParseElements(toks) ==
    IF Len(toks) = 0 THEN [ok |-> FALSE, val |-> <<>>]
    ELSE IF ~IsNumToken(toks[1]) THEN [ok |-> FALSE, val |-> <<>>]
    ELSE IF Len(toks) = 1 THEN [ok |-> TRUE, val |-> <<Num(TokenNum(toks[1]))>>]
    ELSE IF toks[2] # "," THEN [ok |-> FALSE, val |-> <<>>]
    ELSE LET rest == ParseElements(SubSeq(toks, 3, Len(toks)))
         IN  IF rest.ok
             THEN [ok |-> TRUE, val |-> <<Num(TokenNum(toks[1]))>> \o rest.val]
             ELSE rest

\* JSON.parse of a text that is meant to hold an array of numbers:
\* ok = FALSE is the SyntaxError it throws.
JSONparse(text) ==
    IF Len(text) < 2 \/ text[1] # "[" \/ text[Len(text)] # "]"
    THEN [ok |-> FALSE, val |-> <<>>]
    ELSE IF Len(text) = 2 THEN [ok |-> TRUE, val |-> <<>>]
    ELSE ParseElements(SubSeq(text, 2, Len(text) - 1))

\* localStorage.getItem: null when the key is absent, else the stored text.
Absent == [present |-> FALSE, text |-> <<>>]
Stored(text) == [present |-> TRUE, text |-> text]

\* What localStorage may hold under 'movieFavorites' when the page opens.
PersistedValues ==
    { Absent,
      Stored(<<>>),
      Stored(<<"[", "]">>),
      Stored(<<"[", "1", "]">>),
      Stored(<<"[", "-1", ",", "1", "]">>),
      Stored(<<"[", "1">>),
      Stored(<<"undefined">>) }

(***************************************************************************)
(* The backend: what the requests can be answered with.                    *)
(***************************************************************************)
Movie(id, title, genre) == [id |-> id, title |-> title, genre |-> genre]

Dune == Movie(Num(1), "Dune", "Sci-Fi")
Her == Movie(Num(2), "Her", "Drama")
Negative == Movie(Num(-1), "Tenet", "Sci-Fi")
Zero == Movie(Num(0), "Solaris", "")

\* response.data of a 2xx answer: a JSON array, or something that is not one.
ListBody(items) == [isArray |-> TRUE, items |-> items]
NotAListBody == [isArray |-> FALSE, items |-> <<>>]

\* Bodies of GET movies/ .
CatalogBodies == { ListBody(<<Dune, Negative>>),
                   ListBody(<<Dune, Zero>>),
                   NotAListBody }

\* A catalog entry with every field the search, the filter and the sort read;
\* description, genre, rating and year may be missing (null).  Ratings are
\* on the scale 0 to 5, whole numbers here.
Film(id, title, genre, description, rating, year) ==
    [id |-> id, title |-> Text(title), genre |-> genre,
     description |-> description, rating |-> rating, year |-> year]

Drama == Text(<<"D", "r", "a", "m", "a">>)
Kids == Text(<<"K", "i", "d", "s">>)
Art == Text(<<"a", "r", "t">>)

Up == Film(Num(1), <<"U", "p">>, Kids,
           Text(<<"A", " ", "d", "o", "g">>), Num(4), Num(9))
Ran == Film(Num(2), <<"R", "a", "n">>, Drama, Null, Null, Num(5))
Big == Film(Num(3), <<"B", "i", "g">>, Drama,
            Text(<<"G", "r", "o", "w", " ", "u", "p">>), Num(4), Null)
It == Film(Num(4), <<"I", "t">>, All, Text(<<>>), Num(0), Num(0))
Pi == Film(Num(5), <<"P", "i">>, Null, Null, Num(5), Num(9))
Go == Film(Num(6), <<"G", "o">>, Art, Text(<<"U", "p", "-", "b", "e", "a", "t">>),
           Num(3), Num(9))

\* Bodies of GET movies/ that tell the search, the filter and the sort apart.
FilterCatalogBodies == { ListBody(<<Up, Ran, Big>>),
                         ListBody(<<Go, Pi, Up>>),
                         ListBody(<<Ran, It>>),
                         NotAListBody }

\* What can be typed into the search box.
SearchTerms == { Text(<<>>), Text(<<"U", "P">>), Text(<<"d", "o", "g">>),
                 Text(<<"z">>) }

\* Bodies of GET recommended/ and GET collaborative_recommended/ .
RecommendationBodies == { ListBody(<<Her>>), ListBody(<<>>), NotAListBody }

\* err.response?.data of a rejected request; a missing field, and a request
\* that got no response at all (network failure, timeout), is the empty text.
ErrorBody(e, d) == [error |-> e, detail |-> d]

ErrorBodies == { ErrorBody(<<"TMDb", "service", "unavailable">>, <<>>),
                 ErrorBody(<<>>, <<"No", "local", "movies", "match">>),
                 ErrorBody(<<>>, <<>>) }

(***************************************************************************)
(* State                                                                   *)
(***************************************************************************)
VARIABLES
    phase,                \* "unmounted", "mounted", or "crashed" (render threw)
    storage,              \* localStorage entry 'movieFavorites'
    movies,               \* useState([])     Home.jsx:5
    recommended,          \* useState([])     Home.jsx:6
    selectedMovieId,      \* useState(null)   Home.jsx:7
    loading,              \* useState(true)   Home.jsx:8
    recLoading,           \* useState(false)  Home.jsx:9
    error,                \* useState(null)   Home.jsx:10
    recommendationError,  \* useState(null)   Home.jsx:11
    searchTerm,           \* useState('')       Home.jsx:12
    selectedGenre,        \* useState('All')    Home.jsx:13
    sortBy,               \* useState('rating') Home.jsx:14
    recType,              \* useState('content') Home.jsx:16
    favorites,            \* useState(initializer) Home.jsx:17
    catInFlight,          \* bag of the requests for movies/ not yet answered
    recInFlight,          \* bag of the recommendation requests not yet answered
    lastOp                \* history: the handler or continuation that ran last

vars == <<phase, storage, movies, recommended, selectedMovieId, loading,
          recLoading, error, recommendationError, recType, favorites,
          catInFlight, recInFlight, searchTerm, selectedGenre, sortBy,
          lastOp>>

catalogVars == <<movies, loading, error, catInFlight>>
recVars == <<recommended, selectedMovieId, recLoading, recommendationError,
             recInFlight>>
favVars == <<favorites, storage>>
filterVars == <<searchTerm, selectedGenre, sortBy>>

\* The most recommendation requests awaiting an answer at once.
MaxInFlight == 2

\* What a request was answered with: a 2xx body, or the body of the error.
Resolved(body) == [ok |-> TRUE, data |-> body, err |-> ErrorBody(<<>>, <<>>)]
Rejected(e) == [ok |-> FALSE, data |-> NotAListBody, err |-> e]
NoAnswer == Rejected(ErrorBody(<<>>, <<>>))

\* lastOp: the handler or continuation, the movie id it was called with or
\* was about, the recType of its closure, and the answer it continued with.
Op(name, id, type, answer) ==
    [op |-> name, id |-> id, type |-> type, answer |-> answer]

\* The state of the browser before the component is rendered: the useState
\* defaults, and whatever an earlier session left in localStorage.
Init ==
    /\ phase = "unmounted"
    /\ storage \in PersistedValues
    /\ movies = <<>>
    /\ recommended = <<>>
    /\ selectedMovieId = Null
    /\ loading = TRUE
    /\ recLoading = FALSE
    /\ error = NoMessage
    /\ recommendationError = NoMessage
    /\ recType = "content"
    /\ favorites = <<>>
    /\ catInFlight = EmptyBag
    /\ recInFlight = EmptyBag
    /\ searchTerm = Text(<<>>)
    /\ selectedGenre = All
    /\ sortBy = "rating"
    /\ lastOp = Op("none", Null, "", NoAnswer)

(***************************************************************************)
(* Helpers shared by the handlers                                          *)
(***************************************************************************)
\* Array.isArray(response.data) ? response.data : []
ArrayOrEmpty(body) == IF body.isArray THEN body.items ELSE <<>>

\* err.response?.data?.error || err.response?.data?.detail || fallback
ErrorMessage(body, fallback) ==
    IF body.error # <<>> THEN body.error
    ELSE IF body.detail # <<>> THEN body.detail
    ELSE fallback

LoadFallback ==
    <<"Failed", "to", "load", "movies.", "Please", "try", "again", "later.">>
RefreshFallback == <<"Failed", "to", "refresh", "movies.">>
RecommendationFallback ==
    <<"Failed", "to", "load", "recommendations.", "Please", "try", "again.">>
ValidationMessage == <<"Please", "select", "a", "valid", "movie.">>
TmdbNote == <<"Collaborative", "recommendations", "rely", "on", "TMDb", "data.">>

\* The three views the component renders: the spinner while loading, the
\* error panel while error is set, else the page with its controls.
SpinnerView == phase = "mounted" /\ loading
ErrorView == phase = "mounted" /\ ~loading /\ error # NoMessage
MainView == phase = "mounted" /\ ~loading /\ error = NoMessage

\* The recommendation error panel, with its recovery buttons.
RecErrorPanel == MainView /\ recommendationError # NoMessage /\ ~recLoading

(***************************************************************************)
(* Favorites store                                                         *)
(***************************************************************************)
\* The useState initializer: saved ? JSON.parse(saved) : []
InitialFavorites(saved) ==
    IF saved.present /\ saved.text # <<>>
    THEN JSONparse(saved.text)
    ELSE [ok |-> TRUE, val |-> <<>>]

\* The effect on [favorites]: localStorage.setItem(key, JSON.stringify(favorites))
PersistFavorites(favs) == Stored(JSONstringify(favs))

\* prev.includes(movieId)
Includes(arr, v) == \E i \in 1..Len(arr) : arr[i] = v

\* Faulty variant: prev.filter(id => id === movieId)
RECURSIVE Only(_, _)
Only(arr, v) ==
    IF Len(arr) = 0 THEN <<>>
    ELSE IF arr[1] = v THEN <<arr[1]>> \o Only(Tail(arr), v)
    ELSE Only(Tail(arr), v)

\* prev.filter(id => id !== movieId)
RECURSIVE Without(_, _)
Without(arr, v) ==
    IF Len(arr) = 0 THEN <<>>
    ELSE IF arr[1] # v THEN <<arr[1]>> \o Without(Tail(arr), v)
    ELSE Without(Tail(arr), v)

\* Faulty variant: the updater appends without looking for the id.
toggleAlwaysAppends(prev, movieId) == Append(prev, movieId)

\* The updater of toggleFavorite.
toggleFavoriteUpdate(prev, movieId) ==
    IF Includes(prev, movieId) THEN Without(prev, movieId)
    ELSE Append(prev, movieId)

\* Faulty variant: the favorites change and the effect that persists them does not run.
toggleFavoriteUnpersisted(movieId) ==
    /\ MainView
    /\ \E i \in 1..Len(movies) : movies[i].id = movieId
    /\ favorites' = toggleFavoriteUpdate(favorites, movieId)
    /\ lastOp' = Op("toggleFavorite", movieId, "", NoAnswer)
    /\ UNCHANGED <<phase, recType, storage>>
    /\ UNCHANGED filterVars
    /\ UNCHANGED catalogVars
    /\ UNCHANGED recVars

\* A click on the heart of a rendered card, and the effect on [favorites]
\* that React runs after the render it causes.
toggleFavorite(movieId) ==
    /\ MainView
    /\ \E i \in 1..Len(movies) : movies[i].id = movieId
    /\ favorites' = toggleFavoriteUpdate(favorites, movieId)
    /\ storage' = PersistFavorites(favorites')
    /\ lastOp' = Op("toggleFavorite", movieId, "", NoAnswer)
    /\ UNCHANGED <<phase, recType>>
    /\ UNCHANGED filterVars
    /\ UNCHANGED catalogVars
    /\ UNCHANGED recVars

(***************************************************************************)
(* Mounting: the first render and the two effects that follow it           *)
(***************************************************************************)
CatalogRequest(refresh) == [path |-> "movies/", refresh |-> refresh]

Mount ==
    /\ phase = "unmounted"
    /\ LET r == InitialFavorites(storage)
       IN  IF r.ok
           THEN /\ phase' = "mounted"
                /\ favorites' = r.val
                /\ loading' = TRUE
                /\ catInFlight' = catInFlight (+) SetToBag({CatalogRequest(FALSE)})
                /\ storage' = PersistFavorites(r.val)
                /\ UNCHANGED <<movies, error>>
           ELSE /\ phase' = "crashed"
                /\ UNCHANGED favVars
                /\ UNCHANGED catalogVars
    /\ lastOp' = Op("mount", Null, "", NoAnswer)
    /\ UNCHANGED recType
    /\ UNCHANGED filterVars
    /\ UNCHANGED recVars

(***************************************************************************)
(* Catalog store                                                           *)
(***************************************************************************)
\* The catalog part of the component's state.
CatalogState == [movies |-> movies, error |-> error, loading |-> loading]

\* fetchMovies after its await resolved: the rest of try, then finally.
fetchMoviesThen(cat, body) ==
    [cat EXCEPT !.movies = ArrayOrEmpty(body), !.error = NoMessage,
                !.loading = FALSE]

\* Faulty variant: setLoading(false) at the end of try instead of in finally.
fetchMoviesCatchKeepsLoading(cat, e) ==
    [cat EXCEPT !.error = ErrorMessage(e, LoadFallback)]

\* fetchMovies after its await was rejected: catch, then finally.
fetchMoviesCatch(cat, e) ==
    [cat EXCEPT !.error = ErrorMessage(e, LoadFallback), !.loading = FALSE]

\* handleRefresh's .then, followed by its .finally.
refreshThen(cat, body) ==
    [cat EXCEPT !.movies = ArrayOrEmpty(body), !.error = NoMessage,
                !.loading = FALSE]

\* handleRefresh's .catch, followed by its .finally.
refreshCatch(cat, e) ==
    [cat EXCEPT !.error = ErrorMessage(e, RefreshFallback), !.loading = FALSE]

SetCatalogState(cat) ==
    /\ movies' = cat.movies
    /\ error' = cat.error
    /\ loading' = cat.loading

\* The answer to the request of fetchMovies arrives: 2xx.
fetchMoviesResolved(body) ==
    /\ BagIn(CatalogRequest(FALSE), catInFlight)
    /\ SetCatalogState(fetchMoviesThen(CatalogState, body))
    /\ catInFlight' = catInFlight (-) SetToBag({CatalogRequest(FALSE)})
    /\ lastOp' = Op("fetchMoviesResolved", Null, "", Resolved(body))
    /\ UNCHANGED <<phase, recType>>
    /\ UNCHANGED filterVars
    /\ UNCHANGED recVars
    /\ UNCHANGED favVars

\* The request of fetchMovies fails: non-2xx, network failure or timeout.
fetchMoviesRejected(e) ==
    /\ BagIn(CatalogRequest(FALSE), catInFlight)
    /\ SetCatalogState(fetchMoviesCatch(CatalogState, e))
    /\ catInFlight' = catInFlight (-) SetToBag({CatalogRequest(FALSE)})
    /\ lastOp' = Op("fetchMoviesRejected", Null, "", Rejected(e))
    /\ UNCHANGED <<phase, recType>>
    /\ UNCHANGED filterVars
    /\ UNCHANGED recVars
    /\ UNCHANGED favVars

\* Faulty variant: handleRefresh without setRecommendationError(null).
handleRefreshKeepsRecommendationError ==
    /\ phase = "mounted"
    /\ ~loading
    /\ loading' = TRUE
    /\ error' = NoMessage
    /\ recommended' = <<>>
    /\ catInFlight' = catInFlight (+) SetToBag({CatalogRequest(TRUE)})
    /\ lastOp' = Op("handleRefresh", Null, "", NoAnswer)
    /\ UNCHANGED <<phase, recType, movies>>
    /\ UNCHANGED filterVars
    /\ UNCHANGED <<selectedMovieId, recLoading, recInFlight, recommendationError>>
    /\ UNCHANGED favVars

\* Faulty variant: a refresh button is also rendered next to the spinner.
handleRefreshWhileLoading ==
    /\ phase = "mounted"
    /\ BagCardinality(catInFlight) < MaxInFlight
    /\ loading' = TRUE
    /\ error' = NoMessage
    /\ recommendationError' = NoMessage
    /\ recommended' = <<>>
    /\ catInFlight' = catInFlight (+) SetToBag({CatalogRequest(TRUE)})
    /\ lastOp' = Op("handleRefresh", Null, "", NoAnswer)
    /\ UNCHANGED <<phase, recType, movies>>
    /\ UNCHANGED filterVars
    /\ UNCHANGED <<selectedMovieId, recLoading, recInFlight>>
    /\ UNCHANGED favVars

\* A click on "Try Again" (error panel), on the refresh button, or on one of
\* the refresh buttons of the recommendation panels: none exists while the
\* spinner is shown.
handleRefresh ==
    /\ phase = "mounted"
    /\ ~loading
    /\ loading' = TRUE
    /\ error' = NoMessage
    /\ recommendationError' = NoMessage
    /\ recommended' = <<>>
    /\ catInFlight' = catInFlight (+) SetToBag({CatalogRequest(TRUE)})
    /\ lastOp' = Op("handleRefresh", Null, "", NoAnswer)
    /\ UNCHANGED <<phase, recType, movies>>
    /\ UNCHANGED filterVars
    /\ UNCHANGED <<selectedMovieId, recLoading, recInFlight>>
    /\ UNCHANGED favVars

\* The answer to the request of handleRefresh arrives: 2xx.
refreshResolved(body) ==
    /\ BagIn(CatalogRequest(TRUE), catInFlight)
    /\ SetCatalogState(refreshThen(CatalogState, body))
    /\ catInFlight' = catInFlight (-) SetToBag({CatalogRequest(TRUE)})
    /\ lastOp' = Op("refreshResolved", Null, "", Resolved(body))
    /\ UNCHANGED <<phase, recType>>
    /\ UNCHANGED filterVars
    /\ UNCHANGED recVars
    /\ UNCHANGED favVars

\* The request of handleRefresh fails.
refreshRejected(e) ==
    /\ BagIn(CatalogRequest(TRUE), catInFlight)
    /\ SetCatalogState(refreshCatch(CatalogState, e))
    /\ catInFlight' = catInFlight (-) SetToBag({CatalogRequest(TRUE)})
    /\ lastOp' = Op("refreshRejected", Null, "", Rejected(e))
    /\ UNCHANGED <<phase, recType>>
    /\ UNCHANGED filterVars
    /\ UNCHANGED recVars
    /\ UNCHANGED favVars

(***************************************************************************)
(* Recommendation orchestrator                                             *)
(***************************************************************************)
\* The guard of fetchRecommended:  !movieId || isNaN(movieId)
InvalidMovieId(movieId) == ~Truthy(movieId) \/ IsNaN(movieId)

\* The URL fetchRecommended requests, from the recType of its closure.
RecommendationUrl(movieId, type) ==
    IF type = "collaborative"
    THEN [path |-> "collaborative_recommended/", id |-> movieId, type |-> ""]
    ELSE [path |-> "recommended/", id |-> movieId, type |-> type]

\* A request in flight: what was sent, and what the continuation of
\* fetchRecommended still holds in its closure.
RecRequest(movieId, type) ==
    [url |-> RecommendationUrl(movieId, type), movieId |-> movieId, type |-> type]

\* Faulty variant: fetchRecommended without setRecommendationError(null).
fetchRecommendedKeepsError(movieId, type) ==
    IF InvalidMovieId(movieId)
    THEN /\ recommendationError' = ValidationMessage
         /\ UNCHANGED <<recommended, selectedMovieId, recLoading, recInFlight>>
    ELSE /\ BagCardinality(recInFlight) < MaxInFlight
         /\ recLoading' = TRUE
         /\ recommended' = <<>>
         /\ recInFlight' = recInFlight (+) SetToBag({RecRequest(movieId, type)})
         /\ UNCHANGED <<selectedMovieId, recommendationError>>

\* fetchRecommended(movieId) up to its await, in a render whose recType is
\* type.
fetchRecommended(movieId, type) ==
    IF InvalidMovieId(movieId)
    THEN /\ recommendationError' = ValidationMessage
         /\ UNCHANGED <<recommended, selectedMovieId, recLoading, recInFlight>>
    ELSE /\ BagCardinality(recInFlight) < MaxInFlight
         /\ recLoading' = TRUE
         /\ recommendationError' = NoMessage
         /\ recommended' = <<>>
         /\ recInFlight' = recInFlight (+) SetToBag({RecRequest(movieId, type)})
         /\ UNCHANGED selectedMovieId

\* "Get Similar" on a rendered card; the button is disabled for an id the
\* guard of fetchRecommended rejects.
GetSimilar(movieId) ==
    /\ MainView
    /\ \E i \in 1..Len(movies) : movies[i].id = movieId
    /\ ~(~Truthy(movieId) \/ IsNaN(movieId))
    /\ fetchRecommended(movieId, recType)
    /\ lastOp' = Op("GetSimilar", movieId, recType, NoAnswer)
    /\ UNCHANGED <<phase, recType>>
    /\ UNCHANGED filterVars
    /\ UNCHANGED catalogVars
    /\ UNCHANGED favVars

\* The movie the Retry button asks recommendations for.
RetryMovieId == selectedMovieId

\* Whether the error panel shows the Retry button.
RetryOffered == RecErrorPanel /\ Truthy(selectedMovieId)

Retry ==
    /\ RetryOffered
    /\ fetchRecommended(RetryMovieId, recType)
    /\ lastOp' = Op("Retry", RetryMovieId, recType, NoAnswer)
    /\ UNCHANGED <<phase, recType>>
    /\ UNCHANGED filterVars
    /\ UNCHANGED catalogVars
    /\ UNCHANGED favVars

\* "Try Content-Based": setRecType('content'); fetchRecommended(selectedMovieId).
\* setRecType takes effect with the next render; the fetchRecommended that is
\* called is the one of the current render, whose recType is the current one.
TryContentBased ==
    /\ RecErrorPanel
    /\ recType = "collaborative"
    /\ recType' = "content"
    /\ fetchRecommended(selectedMovieId, recType)
    /\ lastOp' = Op("TryContentBased", selectedMovieId, recType, NoAnswer)
    /\ UNCHANGED phase
    /\ UNCHANGED filterVars
    /\ UNCHANGED catalogVars
    /\ UNCHANGED favVars

\* The recommendation type selector.
setRecType(type) ==
    /\ MainView
    /\ type # recType
    /\ recType' = type
    /\ lastOp' = Op("setRecType", Null, type, NoAnswer)
    /\ UNCHANGED phase
    /\ UNCHANGED filterVars
    /\ UNCHANGED catalogVars
    /\ UNCHANGED recVars
    /\ UNCHANGED favVars

\* Faulty variant: the message is searched for 'tmdb' without toLowerCase().
RecommendationErrorMessageCaseSensitive(e, type) ==
    LET errorMsg == ErrorMessage(e, RecommendationFallback)
    IN  IF type = "collaborative"
        THEN IF includes(errorMsg, <<"tmdb">>)
             THEN errorMsg \o TmdbNote
             ELSE errorMsg
        ELSE errorMsg

\* The message shown for a failed request, in a closure whose recType is type.
RecommendationErrorMessage(e, type) ==
    LET errorMsg == ErrorMessage(e, RecommendationFallback)
    IN  IF type = "collaborative"
        THEN IF includes(toLowerCase(errorMsg), <<"tmdb">>)
             THEN errorMsg \o TmdbNote
             ELSE errorMsg
        ELSE errorMsg

\* fetchRecommended after its await resolved, then finally.
fetchRecommendedResolved(req, body) ==
    /\ BagIn(req, recInFlight)
    /\ recommended' = ArrayOrEmpty(body)
    /\ selectedMovieId' = req.movieId
    /\ recLoading' = FALSE
    /\ recInFlight' = recInFlight (-) SetToBag({req})
    /\ lastOp' = Op("fetchRecommendedResolved", req.movieId,
                    req.type, Resolved(body))
    /\ UNCHANGED <<phase, recType, recommendationError>>
    /\ UNCHANGED filterVars
    /\ UNCHANGED catalogVars
    /\ UNCHANGED favVars

\* Faulty variant: the failure path calls setError where it should call
\* setRecommendationError.
fetchRecommendedRejectedSetsError(req, e) ==
    /\ BagIn(req, recInFlight)
    /\ error' = RecommendationErrorMessage(e, req.type)
    /\ recommended' = <<>>
    /\ recLoading' = FALSE
    /\ recInFlight' = recInFlight (-) SetToBag({req})
    /\ lastOp' = Op("fetchRecommendedRejected", req.movieId,
                    req.type, Rejected(e))
    /\ UNCHANGED <<phase, recType, selectedMovieId, recommendationError>>
    /\ UNCHANGED filterVars
    /\ UNCHANGED <<movies, loading, catInFlight>>
    /\ UNCHANGED favVars

\* Faulty variant: setRecLoading(false) is missing from the failure path.
fetchRecommendedRejectedKeepsLoading(req, e) ==
    /\ BagIn(req, recInFlight)
    /\ recommendationError' = RecommendationErrorMessage(e, req.type)
    /\ recommended' = <<>>
    /\ recInFlight' = recInFlight (-) SetToBag({req})
    /\ lastOp' = Op("fetchRecommendedRejected", req.movieId,
                    req.type, Rejected(e))
    /\ UNCHANGED <<phase, recType, selectedMovieId, recLoading>>
    /\ UNCHANGED filterVars
    /\ UNCHANGED catalogVars
    /\ UNCHANGED favVars

\* fetchRecommended after its await was rejected: catch, then finally.
fetchRecommendedRejected(req, e) ==
    /\ BagIn(req, recInFlight)
    /\ recommendationError' = RecommendationErrorMessage(e, req.type)
    /\ recommended' = <<>>
    /\ recLoading' = FALSE
    /\ recInFlight' = recInFlight (-) SetToBag({req})
    /\ lastOp' = Op("fetchRecommendedRejected", req.movieId,
                    req.type, Rejected(e))
    /\ UNCHANGED <<phase, recType, selectedMovieId>>
    /\ UNCHANGED filterVars
    /\ UNCHANGED catalogVars
    /\ UNCHANGED favVars

(***************************************************************************)
(* Search, genre filter and sort: the values derived from the catalog      *)
(***************************************************************************)
\* UTF-16 code unit of a character of the texts: upper case before lower
\* case, the space and the hyphen before both.
CharCode(c) == IF IsUpper(c) THEN 64 + LetterIndex(c)
               ELSE IF IsLower(c) THEN 96 + LetterIndex(c)
               ELSE IF c = "-" THEN 45
               ELSE 32

\* The comparison of Array.prototype.sort without a comparator: by code
\* units, a proper prefix first.  Negative when a sorts before b.
RECURSIVE CodeUnitCompare(_, _)
CodeUnitCompare(a, b) ==
    IF Len(a) = 0 \/ Len(b) = 0 THEN Len(a) - Len(b)
    ELSE IF a[1] # b[1] THEN CharCode(a[1]) - CharCode(b[1])
    ELSE CodeUnitCompare(Tail(a), Tail(b))

\* String.prototype.localeCompare in the default locale: letters compare
\* without regard to case; texts equal up to case are ordered by their first
\* difference, the lower-case letter first.
localeCompare(a, b) ==
    LET primary == CodeUnitCompare(toLowerCase(a), toLowerCase(b))
    IN  IF primary # 0 THEN primary ELSE 0 - CodeUnitCompare(a, b)

\* Array.prototype.sort is stable: inserting the elements in their order,
\* each before the first element it must precede, gives its result.
\* The comparator is given as a function on pairs of elements.
InsertSorted(sorted, x, comparator) ==
    LET Later == {i \in 1..Len(sorted) : comparator[x, sorted[i]] < 0}
        at == IF Later = {} THEN Len(sorted) + 1
              ELSE CHOOSE i \in Later : \A j \in Later : i <= j
    IN  SubSeq(sorted, 1, at - 1) \o <<x>> \o SubSeq(sorted, at, Len(sorted))

sort(arr, comparator) ==
    LET upTo[n \in 0..Len(arr)] ==
            IF n = 0 THEN <<>> ELSE InsertSorted(upTo[n - 1], arr[n], comparator)
    IN  upTo[Len(arr)]

\* [...new Set(values)]: the first occurrence of each value, in order.
RECURSIVE Unique(_)
Unique(values) ==
    IF Len(values) = 0 THEN <<>>
    ELSE LET front == Unique(SubSeq(values, 1, Len(values) - 1))
             last == values[Len(values)]
         IN  IF \E i \in 1..Len(front) : front[i] = last
             THEN front
             ELSE Append(front, last)

\* The function movie => movie.genre mapped over the catalog.
GenreOf(list) == [i \in 1..Len(list) |-> list[i].genre]

\* useMemo(..., [movies]): the options of the genre select.
genres ==
    LET uniqueGenres == Unique(SelectSeq(GenreOf(movies), Truthy))
        values == {uniqueGenres[i] : i \in 1..Len(uniqueGenres)}
        byCodeUnits == [a \in values, b \in values |-> CodeUnitCompare(a.s, b.s)]
    IN  <<All>> \o sort(uniqueGenres, byCodeUnits)

\* x || 0 for a number or a missing value.
OrZero(v) == IF Truthy(v) THEN v.n ELSE 0

\* Faulty variant: the search looks at the title only.
matchesTitleOnly(movie) ==
    includes(toLowerCase(movie.title.s), toLowerCase(searchTerm.s))

matchesSearch(movie) ==
    \/ includes(toLowerCase(movie.title.s), toLowerCase(searchTerm.s))
    \/ /\ Truthy(movie.description)
       /\ includes(toLowerCase(movie.description.s), toLowerCase(searchTerm.s))

matchesGenre(movie) == selectedGenre = All \/ movie.genre = selectedGenre

\* Faulty variant: ascending by rating and by year.
compareAscending(a, b) ==
    CASE sortBy = "title" -> localeCompare(a.title.s, b.title.s)
      [] sortBy = "rating" -> OrZero(a.rating) - OrZero(b.rating)
      [] sortBy = "year" -> OrZero(a.year) - OrZero(b.year)
      [] OTHER -> 0

\* The comparator given to filtered.sort.
compare(a, b) ==
    CASE sortBy = "title" -> localeCompare(a.title.s, b.title.s)
      [] sortBy = "rating" -> OrZero(b.rating) - OrZero(a.rating)
      [] sortBy = "year" -> OrZero(b.year) - OrZero(a.year)
      [] OTHER -> 0

\* useMemo(..., [movies, searchTerm, selectedGenre, sortBy]): the cards.
filteredAndSortedMovies ==
    LET Keep(movie) == matchesSearch(movie) /\ matchesGenre(movie)
        filtered == SelectSeq(movies, Keep)
        kept == {filtered[i] : i \in 1..Len(filtered)}
    IN  sort(filtered, [a \in kept, b \in kept |-> compare(a, b)])

\* The three controls, rendered in the main view only.
setSearchTerm(value) ==
    /\ MainView
    /\ searchTerm' = value
    /\ lastOp' = Op("setSearchTerm", Null, "", NoAnswer)
    /\ UNCHANGED <<phase, recType, selectedGenre, sortBy>>
    /\ UNCHANGED catalogVars
    /\ UNCHANGED recVars
    /\ UNCHANGED favVars

\* The options are the elements of genres.
setSelectedGenre(value) ==
    /\ MainView
    /\ \E i \in 1..Len(genres) : genres[i] = value
    /\ selectedGenre' = value
    /\ lastOp' = Op("setSelectedGenre", Null, "", NoAnswer)
    /\ UNCHANGED <<phase, recType, searchTerm, sortBy>>
    /\ UNCHANGED catalogVars
    /\ UNCHANGED recVars
    /\ UNCHANGED favVars

SortKeys == {"rating", "title", "year"}

setSortBy(value) ==
    /\ MainView
    /\ value \in SortKeys
    /\ sortBy' = value
    /\ lastOp' = Op("setSortBy", Null, "", NoAnswer)
    /\ UNCHANGED <<phase, recType, searchTerm, selectedGenre>>
    /\ UNCHANGED catalogVars
    /\ UNCHANGED recVars
    /\ UNCHANGED favVars

(***************************************************************************)
(* Specification                                                           *)
(***************************************************************************)
MovieIds == {Num(-1), Num(0), Num(1)}
RecTypes == {"content", "collaborative"}

\* Every handler and continuation but the favorites toggle.
NextCore ==
    \/ Mount
    \/ \E body \in CatalogBodies :
           fetchMoviesResolved(body)
    \/ \E e \in ErrorBodies :
           fetchMoviesRejected(e)
    \/ handleRefresh
    \/ \E body \in CatalogBodies :
           refreshResolved(body)
    \/ \E e \in ErrorBodies :
           refreshRejected(e)
    \/ \E id \in MovieIds : GetSimilar(id)
    \/ Retry
    \/ TryContentBased
    \/ \E type \in RecTypes : setRecType(type)
    \/ \E req \in BagToSet(recInFlight), body \in RecommendationBodies :
           fetchRecommendedResolved(req, body)
    \/ \E req \in BagToSet(recInFlight), e \in ErrorBodies :
           fetchRecommendedRejected(req, e)

Next ==
    \/ NextCore
    \/ \E id \in MovieIds : toggleFavorite(id)

Spec == Init /\ [][Next]_vars

\* Every request is answered or fails: the client gives each one a timeout
\* (api.js: timeout 10000), after which axios rejects it.
CatalogSettles ==
    \/ \E body \in CatalogBodies : fetchMoviesResolved(body)
    \/ \E e \in ErrorBodies : fetchMoviesRejected(e)
    \/ \E body \in CatalogBodies : refreshResolved(body)
    \/ \E e \in ErrorBodies : refreshRejected(e)

RecommendationSettles ==
    \/ \E req \in BagToSet(recInFlight), body \in RecommendationBodies :
           fetchRecommendedResolved(req, body)
    \/ \E req \in BagToSet(recInFlight), e \in ErrorBodies :
           fetchRecommendedRejected(req, e)

\* Error bodies that tell the rules of the failure message apart: both fields
\* set, the dependency named in another case, both phrases in one message.
MessageErrorBodies ==
    ErrorBodies \cup
    { ErrorBody(<<"Server", "error">>, <<"TMDb", "is", "down">>),
      ErrorBody(<<>>, <<"TMDB", "quota", "exceeded">>),
      ErrorBody(<<"No", "local", "movies", "match", "tmdb", "ids">>, <<>>) }

\* The recommendation orchestrator alone, after the catalog has loaded, with
\* these error bodies.
MessageNext ==
    \/ Mount
    \/ \E body \in CatalogBodies : fetchMoviesResolved(body)
    \/ \E id \in MovieIds : GetSimilar(id)
    \/ Retry
    \/ TryContentBased
    \/ \E type \in RecTypes : setRecType(type)
    \/ \E req \in BagToSet(recInFlight), body \in RecommendationBodies :
           fetchRecommendedResolved(req, body)
    \/ \E req \in BagToSet(recInFlight), e \in MessageErrorBodies :
           fetchRecommendedRejected(req, e)

MessageSpec == Init /\ [][MessageNext]_vars

\* The catalog store with the three controls of the list.
FilterNext ==
    \/ Mount
    \/ \E body \in FilterCatalogBodies : fetchMoviesResolved(body)
    \/ \E e \in ErrorBodies : fetchMoviesRejected(e)
    \/ handleRefresh
    \/ \E body \in FilterCatalogBodies : refreshResolved(body)
    \/ \E e \in ErrorBodies : refreshRejected(e)
    \/ \E value \in SearchTerms : setSearchTerm(value)
    \/ \E i \in 1..Len(genres) : setSelectedGenre(genres[i])
    \/ \E value \in SortKeys : setSortBy(value)

FilterSpec == Init /\ [][FilterNext]_vars

\* The component under this fairness. The favorites toggle is left out: it
\* reads and writes neither the catalog state nor the recommendation state
\* nor the requests in flight, and it cannot postpone an answer.
FairSpec ==
    /\ Init
    /\ [][NextCore]_vars
    /\ WF_vars(CatalogSettles)
    /\ WF_vars(RecommendationSettles)

(***************************************************************************)
(* Vocabulary of the properties                                            *)
(***************************************************************************)
\* The handlers that call fetchRecommended.
RecTriggers == {"GetSimilar", "Retry", "TryContentBased"}
RecSettled == {"fetchRecommendedResolved", "fetchRecommendedRejected"}

PositiveInteger(v) == v.k = "num" /\ v.n > 0

\* The requests a step sends to the recommendation endpoints.
SentRecRequests == BagToSet(recInFlight' (-) recInFlight)

ToSet(arr) == {arr[i] : i \in 1..Len(arr)}

(***************************************************************************)
(* Recommendation orchestrator: properties                                 *)
(***************************************************************************)
\* C1: every call of fetchRecommended with a movie id that is not a positive
\* integer sets the validation message and sends no request.
C1_InvalidIdRejected ==
    [][(lastOp'.op \in RecTriggers /\ ~PositiveInteger(lastOp'.id))
         => /\ recommendationError' = ValidationMessage
            /\ recInFlight' = recInFlight]_vars

\* C2: the request that "Try Content-Based" sends goes to recommended/ with
\* the type parameter, never to collaborative_recommended/.
C2_TryContentBasedUsesContentEndpoint ==
    [][lastOp'.op = "TryContentBased"
         => \A r \in SentRecRequests :
                r.url.path = "recommended/" /\ r.url.type = "content"]_vars

\* C3: once a request for movie m has failed and the page is shown, Retry is
\* offered and the movie it asks recommendations for is m.
C3_RetrySameMovie ==
    (lastOp.op = "fetchRecommendedRejected" /\ MainView)
        => (RetryOffered /\ RetryMovieId = lastOp.id)

\* C4: every call of fetchRecommended that passes validation leaves the
\* result list empty, the error null and the loading flag true, with its
\* request sent.
C4_TriggerClears ==
    [][(lastOp'.op \in RecTriggers /\ ~InvalidMovieId(lastOp'.id))
         => /\ recommended' = <<>>
            /\ recommendationError' = NoMessage
            /\ recLoading' = TRUE
            /\ SentRecRequests # {}]_vars

\* C4 witness: Retry, which is offered only while an error is shown, has run
\* and the error is gone.
C4_Witness ==
    /\ lastOp.op = "Retry"
    /\ recommendationError = NoMessage
    /\ recLoading
    /\ BagCardinality(recInFlight) = 2

\* What a response leaves when its request is the only one: the trigger
\* cleared list and error, the response set one of them.
AloneList(o) == IF o.answer.ok THEN ArrayOrEmpty(o.answer.data) ELSE <<>>
AloneError(o) ==
    IF o.answer.ok THEN NoMessage
    ELSE RecommendationErrorMessage(o.answer.err, o.type)

\* C5: when the last outstanding response has been processed, list and
\* error are those this response produces on its own.
C5_LastResponseWins ==
    (lastOp.op \in RecSettled /\ recInFlight = EmptyBag)
        => /\ recommended = AloneList(lastOp)
           /\ recommendationError = AloneError(lastOp)

\* C6: whenever the recommendation error is set, the result list is empty.
C6_ErrorImpliesEmptyList ==
    recommendationError # NoMessage => recommended = <<>>

(***************************************************************************)
(* Favorites store: properties                                             *)
(***************************************************************************)
\* C7: mounting with an absent or unparsable persisted value starts the
\* component with no favorites.
C7_UnreadableYieldsEmpty ==
    [][(phase = "unmounted"
          /\ (~storage.present \/ ~JSONparse(storage.text).ok))
         => (phase' = "mounted" /\ favorites' = <<>>)]_vars

\* C8: while the component is mounted, the persisted value is present and
\* decodes to exactly the favorites in memory.
C8_WriteThrough ==
    phase = "mounted"
        => /\ storage.present
           /\ JSONparse(storage.text).ok
           /\ JSONparse(storage.text).val = favorites

\* C8 witness: after toggles, two favorites are in memory and persisted.
C8_Witness ==
    /\ lastOp.op = "toggleFavorite"
    /\ Len(favorites) = 2
    /\ storage = Stored(<<"[", "1", ",", "-1", "]">>)

\* C9: a toggle of id removes id when present and adds it otherwise, changes
\* the membership of no other id, and a second toggle of id gives back the
\* original set.
C9_ToggleMembership ==
    [][lastOp'.op = "toggleFavorite"
         => LET id == lastOp'.id
                before == ToSet(favorites)
            IN  /\ ToSet(favorites') = IF id \in before THEN before \ {id}
                                       ELSE before \cup {id}
                /\ ToSet(toggleFavoriteUpdate(favorites', id)) = before]_vars

\* C9 witness: a toggle has removed an id and left another one in.
C9_Witness ==
    /\ lastOp.op = "toggleFavorite"
    /\ lastOp.id \notin ToSet(favorites)
    /\ favorites # <<>>

(***************************************************************************)
(* Catalog store: properties                                               *)
(***************************************************************************)
\* What is neither catalog state nor recommendation list and error.
restVars == <<phase, recType, selectedMovieId, recLoading, recInFlight,
              favorites, storage>>

\* C10 as stated: refresh() sends the cache-bypassing request and otherwise
\* does what load() does: triggered, it changes only the catalog loading
\* flag and catalog error; answered, it leaves the catalog state load()
\* leaves for this answer; it never changes recommendation list and error.
C10_RefreshIdenticalToLoad ==
    [][/\ lastOp'.op = "handleRefresh"
          => /\ loading' = TRUE
             /\ movies' = movies
             /\ recommended' = recommended
             /\ recommendationError' = recommendationError
       /\ lastOp'.op = "refreshResolved"
          => /\ CatalogState' = fetchMoviesThen(CatalogState, lastOp'.answer.data)
             /\ recommended' = recommended
             /\ recommendationError' = recommendationError
       /\ lastOp'.op = "refreshRejected"
          => /\ CatalogState' = fetchMoviesCatch(CatalogState, lastOp'.answer.err)
             /\ recommended' = recommended
             /\ recommendationError' = recommendationError]_vars

\* The answer carries neither an error nor a detail text.
NoErrorText(e) == e.error = <<>> /\ e.detail = <<>>

\* C10 amended: triggered, refresh() sets the catalog loading flag, clears
\* the catalog error, clears recommendation list and error, and sends the
\* cache-bypassing request; answered, it leaves the catalog state load()
\* leaves for this answer, except that its fallback message is its own, and
\* leaves recommendation list and error alone; it changes nothing else.
C10_RefreshContract ==
    [][/\ lastOp'.op = "handleRefresh"
          => /\ loading' = TRUE
             /\ error' = NoMessage
             /\ movies' = movies
             /\ recommended' = <<>>
             /\ recommendationError' = NoMessage
             /\ catInFlight' = catInFlight (+) SetToBag({CatalogRequest(TRUE)})
             /\ UNCHANGED restVars
       /\ lastOp'.op = "refreshResolved"
          => /\ CatalogState' = fetchMoviesThen(CatalogState, lastOp'.answer.data)
             /\ UNCHANGED <<recommended, recommendationError>>
             /\ UNCHANGED restVars
       /\ lastOp'.op = "refreshRejected"
          => LET e == lastOp'.answer.err
                 asLoad == fetchMoviesCatch(CatalogState, e)
             IN  /\ CatalogState' = IF NoErrorText(e)
                                    THEN [asLoad EXCEPT !.error = RefreshFallback]
                                    ELSE asLoad
                 /\ UNCHANGED <<recommended, recommendationError>>
                 /\ UNCHANGED restVars]_vars

\* C10 witness: a refresh was triggered after a recommendation succeeded
\* and while another recommendation request was outstanding; its request is
\* in flight.
C10_Witness ==
    /\ lastOp.op = "handleRefresh"
    /\ BagIn(CatalogRequest(TRUE), catInFlight)
    /\ recInFlight # EmptyBag
    /\ Truthy(selectedMovieId)
    /\ ~recLoading

\* The continuations of load() and refresh().
CatalogSettled == {"fetchMoviesResolved", "fetchMoviesRejected",
                   "refreshResolved", "refreshRejected"}

\* C11: load() (run by mounting) and refresh() leave the catalog loading flag
\* true, each of their completions, resolved or rejected, leaves it false,
\* and once the component is mounted a loading catalog is always followed by
\* one that is not loading.
C11_LoadingCleared ==
    /\ [][/\ (lastOp'.op = "mount" /\ phase' = "mounted") => loading'
          /\ lastOp'.op = "handleRefresh" => loading'
          /\ lastOp'.op \in CatalogSettled => ~loading']_vars
    /\ ((phase = "mounted" /\ loading) ~> ~loading)

\* C11 witness: a refresh has failed and the spinner is gone.
C11_Witness ==
    /\ lastOp.op = "refreshRejected"
    /\ ~loading
    /\ error # NoMessage

\* C12: every call of fetchRecommended that passes validation enters
\* Loading; Loading is left only by a continuation of fetchRecommended, to
\* Success (the list of the answer stored, its movie recorded as selected)
\* or to Error (a message set, the list empty); and every Loading state is
\* followed by a state one of them left, with the loading flag false.
C12_RequestCycle ==
    /\ [][/\ (lastOp'.op \in RecTriggers /\ ~InvalidMovieId(lastOp'.id))
               => recLoading'
          /\ (recLoading /\ ~recLoading') => lastOp'.op \in RecSettled
          /\ lastOp'.op = "fetchRecommendedResolved"
               => /\ ~recLoading'
                  /\ recommended' = IF lastOp'.answer.data.isArray
                                    THEN lastOp'.answer.data.items ELSE <<>>
                  /\ selectedMovieId' = lastOp'.id
          /\ lastOp'.op = "fetchRecommendedRejected"
               => /\ ~recLoading'
                  /\ recommendationError' # NoMessage
                  /\ recommended' = <<>>]_vars
    /\ (recLoading ~> (~recLoading /\ lastOp.op \in RecSettled))

\* C12 witness: a request was answered with a list, which is stored, and its
\* movie is the selected one.
C12_Witness ==
    /\ lastOp.op = "fetchRecommendedResolved"
    /\ ~recLoading
    /\ recommended # <<>>
    /\ selectedMovieId = lastOp.id
    /\ recommendationError = NoMessage

\* C18: no step of fetchRecommended, neither a call (rejected by the
\* validation or not) nor a continuation, changes the catalog list, the
\* catalog loading flag, the catalog error or the favorites: the page stays
\* the page.
C18_RecommendationFrame ==
    [][lastOp'.op \in RecTriggers \cup RecSettled
         => /\ UNCHANGED <<movies, loading, error, favorites>>
            /\ MainView => MainView']_vars

\* C18 witness: a recommendation request has failed while the catalog and
\* the favorites are shown.
C18_Witness ==
    /\ lastOp.op = "fetchRecommendedRejected"
    /\ MainView
    /\ movies # <<>>
    /\ favorites # <<>>
    /\ recommendationError # NoMessage

\* C20: whenever the recommendation loading flag is false, no
\* recommendation request is outstanding.
C20_LoadingWhileInFlight ==
    ~recLoading => recInFlight = EmptyBag

\* The identifiers of the movies of a list.
IdsOf(list) == {list[i].id : i \in 1..Len(list)}

\* C19: the favorites the component starts with are the persisted ones; from
\* then on an identifier enters the favorites only by a toggle of a movie of
\* the catalog of that moment, and leaves them only by a toggle of that
\* identifier, whether or not its movie is still in the catalog.
C19_FavoritesFromCatalog ==
    [][/\ (lastOp'.op = "mount" /\ phase' = "mounted")
            => favorites' = InitialFavorites(storage).val
       /\ phase = "mounted"
            => /\ \A id \in ToSet(favorites') \ ToSet(favorites) :
                      /\ lastOp' = Op("toggleFavorite", id, "", NoAnswer)
                      /\ id \in IdsOf(movies)
               /\ \A id \in ToSet(favorites) \ ToSet(favorites') :
                      lastOp' = Op("toggleFavorite", id, "", NoAnswer)]_vars

\* C19 witness: a refresh has replaced the catalog and a favorite whose
\* movie is no longer in it is still there.
C19_Witness ==
    /\ lastOp.op = "refreshResolved"
    /\ movies # <<>>
    /\ \E id \in ToSet(favorites) : id \notin IdsOf(movies)

\* The message names TMDb, in whatever case.
MentionsTmdb(msg) == \E i \in 1..Len(msg) : msg[i] \in {"TMDb", "TMDB", "tmdb"}

\* The text of the error body the message is taken from.
BaseMessage(e) ==
    IF e.error # <<>> THEN e.error
    ELSE IF e.detail # <<>> THEN e.detail
    ELSE RecommendationFallback

\* C17: the message of a failed request is the error field, else the detail
\* field, else the fallback; for a request made in collaborative mode a
\* message that names TMDb gets the note appended and any other message,
\* the one about no local match included, is shown as it is; for a request
\* made in content mode the message is always shown as it is.
C17_FailureMessage ==
    [][lastOp'.op = "fetchRecommendedRejected"
         => LET base == BaseMessage(lastOp'.answer.err)
            IN  recommendationError' =
                    IF lastOp'.type = "collaborative" /\ MentionsTmdb(base)
                    THEN base \o TmdbNote
                    ELSE base]_vars

\* C17 witness: a collaborative request failed with "TMDb service
\* unavailable" and the note was appended.
C17_Witness ==
    /\ lastOp.op = "fetchRecommendedRejected"
    /\ lastOp.type = "collaborative"
    /\ recommendationError = <<"TMDb", "service", "unavailable">> \o TmdbNote

(***************************************************************************)
(* Search, genre filter and sort: properties                               *)
(***************************************************************************)
\* C13: in every state the selected genre is one of the options computed
\* from the current catalog, the sentinel 'All' or a genre of a movie in it.
C13_SelectedGenreAvailable ==
    phase = "mounted" => \E i \in 1..Len(genres) : genres[i] = selectedGenre

\* a sorts strictly before b, character by character.
LexLess(a, b) ==
    \E k \in 1..Len(b) :
        /\ \A j \in 1..(k - 1) : j <= Len(a) /\ a[j] = b[j]
        /\ \/ k = Len(a) + 1
           \/ k <= Len(a) /\ CharCode(a[k]) < CharCode(b[k])

\* The genre values present in the catalog, a missing or empty one left out.
PresentGenres ==
    {movies[i].genre : i \in {j \in 1..Len(movies) :
                                 /\ movies[j].genre # Null
                                 /\ movies[j].genre # Text(<<>>)}}

\* C14: for whatever catalog is stored, the options start with 'All', the
\* rest are exactly the genre values present in the catalog in increasing
\* lexicographic order, and no option occurs twice.
C14_AvailableGenres ==
    /\ genres[1] = All
    /\ {genres[i] : i \in 2..Len(genres)} = PresentGenres
    /\ \A i, j \in 2..Len(genres) : i < j => LexLess(genres[i].s, genres[j].s)
    /\ \A i, j \in 1..Len(genres) : i < j => genres[i] # genres[j]

\* Two characters that are the same up to the case of a letter.
SameLetter(c, d) ==
    \/ c = d
    \/ /\ IsUpper(c) \/ IsLower(c)
       /\ IsUpper(d) \/ IsLower(d)
       /\ LetterIndex(c) = LetterIndex(d)

\* The search term occurs in the text, the case of letters disregarded.
QueryIn(text) ==
    \E i \in 0..(Len(text) - Len(searchTerm.s)) :
        \A j \in 1..Len(searchTerm.s) : SameLetter(text[i + j], searchTerm.s[j])

\* The movie satisfies the search term and the selected genre.
Matches(m) ==
    /\ \/ searchTerm.s = <<>>
       \/ QueryIn(m.title.s)
       \/ m.description # Null /\ QueryIn(m.description.s)
    /\ selectedGenre = All \/ m.genre = selectedGenre

\* How many times x occurs in the sequence.
Count(seq, x) == Cardinality({i \in 1..Len(seq) : seq[i] = x})

ListControls == {"setSearchTerm", "setSelectedGenre", "setSortBy"}

\* C15: for every stored catalog, search term, genre and sort key, the
\* display list holds each matching movie of the catalog as many times as
\* the catalog does and no other movie; changing a control leaves the
\* catalog as it was.
C15_FilterExact ==
    /\ [](\A m \in ToSet(movies) \cup ToSet(filteredAndSortedMovies) :
              Count(filteredAndSortedMovies, m) =
                  IF Matches(m) THEN Count(movies, m) ELSE 0)
    /\ [][lastOp'.op \in ListControls => movies' = movies]_vars

\* C15 witness: 'UP' is searched in [Up, Ran, Big]: Up matches by its
\* title, Big by its description only, Ran is left out.
C15_Witness ==
    /\ movies = <<Up, Ran, Big>>
    /\ searchTerm = Text(<<"U", "P">>)
    /\ selectedGenre = All
    /\ sortBy = "rating"
    /\ filteredAndSortedMovies = <<Up, Big>>

\* The value a movie is sorted by under the current sort key, a missing
\* one being 0.
SortValue(m) ==
    LET v == IF sortBy = "rating" THEN m.rating ELSE m.year
    IN  IF v = Null THEN 0 ELSE v.n

\* C16: sorted by rating, and sorted by year, the display list is
\* non-increasing in the value, a missing value counting as 0, and the
\* movies of equal value are in the order the catalog has them in.
C16_SortedStable ==
    sortBy \in {"rating", "year"} =>
        LET shown == filteredAndSortedMovies
            Shown(m) == m \in ToSet(shown)
        IN  /\ \A i, j \in 1..Len(shown) :
                   i < j => SortValue(shown[i]) >= SortValue(shown[j])
            /\ \A v \in {SortValue(shown[i]) : i \in 1..Len(shown)} :
                   LET HasValue(m) == SortValue(m) = v
                   IN  SelectSeq(shown, HasValue) =
                           SelectSeq(SelectSeq(movies, Shown), HasValue)

\* C16 witness: [Up 4, Ran unrated, Big 4] sorted by rating: Big moves
\* before Ran, Up and Big keep their order.
C16_Witness ==
    /\ movies = <<Up, Ran, Big>>
    /\ sortBy = "rating"
    /\ filteredAndSortedMovies = <<Up, Big, Ran>>

(***************************************************************************)
(* Catalog store: requests in flight                                       *)
(***************************************************************************)
\* C21: a refresh is triggered only while the loading flag is false and no
\* catalog request is outstanding; so at most one catalog request, load or
\* refresh, is in flight in every state, and once the component is mounted
\* the loading flag is true exactly while one is in flight.
C21_CatalogRequestsNeverOverlap ==
    /\ [](/\ BagCardinality(catInFlight) <= 1
          /\ phase = "mounted" => (loading <=> catInFlight # EmptyBag))
    /\ [][lastOp'.op = "handleRefresh"
            => ~loading /\ catInFlight = EmptyBag]_vars

\* C21 witness: the catalog has been loaded, a refresh was triggered, and
\* its request is the one in flight.
C21_Witness ==
    /\ lastOp.op = "handleRefresh"
    /\ movies # <<>>
    /\ loading
    /\ catInFlight = SetToBag({CatalogRequest(TRUE)})

====
